---- MODULE Spec2Model ----
(***************************************************************************)
(* Model of ch09_floating_point.py: the three conversion routines          *)
(*   manual_float_conversion, decimal_to_ieee754_single and                *)
(*   ieee754_single_to_decimal.                                            *)
(*                                                                         *)
(* A Python float is modelled exactly as a record                          *)
(*   [kind |-> "fin", sign |-> s, m |-> m, e |-> e]   value (-1)^s*m*2^e   *)
(*   [kind |-> "inf", sign |-> s, ...], [kind |-> "nan", ...]              *)
(* with m odd (or m = 0, e = 0 for the two zeros).  Every float operation  *)
(* the routines perform on these values (abs, int, subtraction of the      *)
(* integer part, doubling, subtracting a bit) is exact in binary floating  *)
(* point, so the dyadic model computes what the interpreter computes.      *)
(* A Python string is a sequence of one-character strings.                 *)
(***************************************************************************)
EXTENDS Integers, Sequences, FiniteSets, TLC

\* ------------------------------------------------------------------ bounds
MaxExp == 130        \* largest binary exponent e of an input m*2^e
MaxNegExp == 152     \* inputs go down to m*2^(-MaxNegExp)
MaxExtra == 2        \* most characters beyond the 32nd fed to the decoder

\* ------------------------------------------------------- program constants
LoopBits == 23       \* range(23) of the fractional loop
MantissaWidth == 23  \* mantissa[:23].ljust(23, '0')
Bias == 127          \* exponent + 127
ExpFieldWidth == 8   \* format(biased_exponent, '08b')
ByteWidth == 8       \* f'{byte:08b}' and the slice step of the decoder
DecodeBits == 32     \* range(0, 32, 8) and ieee_bits[9:32]
SingleFracBits == 23 \* fraction bits of the C float behind struct format 'f'
SingleExpBits == 8   \* exponent bits of the C float
SingleBias == 127    \* exponent bias of the C float
SingleMaxBiased == 255  \* all-ones exponent field: infinity and NaN
SingleMinUlp == 149  \* the smallest subnormal is 2^-149

\* --------------------------------------------------------------- integers
RECURSIVE Pow2(_)
Pow2(k) == IF k <= 0 THEN 1 ELSE 2 * Pow2(k - 1)

\* floor(n / 2^k) for n >= 0, k >= 0 (halving k times, so no large power is formed)
RECURSIVE ShiftRight(_, _)
ShiftRight(n, k) == IF k <= 0 \/ n = 0 THEN n ELSE ShiftRight(n \div 2, k - 1)

\* n mod 2^k for n >= 0, k >= 0
LowBits(n, k) ==
    LET q == ShiftRight(n, k) IN IF q = 0 THEN n ELSE n - q * Pow2(k)

RECURSIVE BitLen(_)
BitLen(n) == IF n <= 0 THEN 0 ELSE 1 + BitLen(n \div 2)

Max(a, b) == IF a >= b THEN a ELSE b
Min(a, b) == IF a <= b THEN a ELSE b

\* ---------------------------------------------------------------- strings
\* c * n: the character c repeated n times (empty for n <= 0)
Repeat(c, n) == [i \in 1..n |-> c]

\* s[a:b] of Python, 0-based, clipped to the string
Slice(s, a, b) == SubSeq(s, Min(a, Len(s)) + 1, Min(b, Len(s)))

\* s[a:]
SliceFrom(s, a) == SubSeq(s, Min(a, Len(s)) + 1, Len(s))

\* padding on the wrong side (rjust in place of ljust)
LjustOnLeft(s, n, c) == Repeat(c, n - Len(s)) \o s

\* s.ljust(n, c)
Ljust(s, n, c) == s \o Repeat(c, n - Len(s))

\* str(bit) for a bit 0 or 1 (and the decimal digit for any small int)
Str(d) == IF d = 0 THEN "0" ELSE IF d = 1 THEN "1" ELSE "2"

\* bin(n)[2:] for n > 0
RECURSIVE BinDigits(_)
BinDigits(n) == IF n <= 0 THEN <<>> ELSE BinDigits(n \div 2) \o <<Str(n % 2)>>

\* format(n, '08b') / f'{n:08b}': binary, sign first, zero-padded to width w
FormatBin(n, w) ==
    IF n < 0
    THEN <<"-">> \o Repeat("0", w - 1 - Len(BinDigits(-n))) \o BinDigits(-n)
    ELSE LET d == IF n = 0 THEN <<"0">> ELSE BinDigits(n)
         IN  Repeat("0", w - Len(d)) \o d

\* frac_binary.index('1'): 0-based position of the first '1', -1 when absent
RECURSIVE IndexOfOne(_, _)
IndexOfOne(s, i) ==
    IF i > Len(s) THEN -1
    ELSE IF s[i] = "1" THEN i - 1
    ELSE IndexOfOne(s, i + 1)

\* value of a string of '0'/'1' digits, most significant first
RECURSIVE BitsValue(_)
BitsValue(s) ==
    IF Len(s) = 0 THEN 0
    ELSE 2 * BitsValue(SubSeq(s, 1, Len(s) - 1)) + (IF s[Len(s)] = "1" THEN 1 ELSE 0)

\* ----------------------------------------------------------------- floats
None == "None"

Fin(s, m, e) == [kind |-> "fin", sign |-> s, m |-> m, e |-> e]
Inf(s) == [kind |-> "inf", sign |-> s, m |-> 0, e |-> 0]
NaN == [kind |-> "nan", sign |-> 0, m |-> 0, e |-> 0]
Zero(s) == Fin(s, 0, 0)

\* odd mantissas of the inputs: 1, 3, 13 (6.5 = 13/2), 99 (12.375 = 99/8),
\* 2^24+1 (25 significant bits) and 0x3333333 (26 significant bits, the
\* leading bits of the expansion of 0.1)
Mantissas == {1, 3, 13, 99, 16777217, 53687091}

FiniteInputs ==
    {Fin(s, m, e) : s \in {0, 1}, m \in Mantissas, e \in (0 - MaxNegExp)..MaxExp}

Inputs == FiniteInputs \cup {Zero(0), Zero(1), Inf(0), Inf(1), NaN}

\* decimal_num >= 0
GeZero(x) ==
    CASE x.kind = "nan" -> FALSE
      [] x.kind = "inf" -> x.sign = 0
      [] OTHER -> x.m = 0 \/ x.sign = 0

\* abs(decimal_num)
Abs(x) == [x EXCEPT !.sign = 0]

\* int(abs_num) of a finite non-negative float: the integer m * 2^sh
IntOf(x) ==
    IF x.e >= 0 THEN [m |-> x.m, sh |-> x.e]
    ELSE [m |-> ShiftRight(x.m, 0 - x.e), sh |-> 0]

\* abs_num - integer_part: the fraction n / 2^k, 0 <= n < 2^k
FracOf(x) ==
    IF x.e >= 0 THEN [n |-> 0, k |-> 0]
    ELSE [n |-> LowBits(x.m, 0 - x.e), k |-> 0 - x.e]

\* bin(integer_part)[2:] if integer_part > 0 else '0'
IntBinary(ip) ==
    IF ip.m > 0 THEN BinDigits(ip.m) \o Repeat("0", ip.sh) ELSE <<"0">>

\* temp *= 2
Doubled(t) == IF t.k > 0 THEN [n |-> t.n, k |-> t.k - 1] ELSE [n |-> 2 * t.n, k |-> 0]

\* int(temp)
IntOfFrac(t) == ShiftRight(t.n, t.k)

\* the subtraction left out
MinusBitSkipped(t, bit) == t

\* temp -= bit, for bit = int(temp)
MinusBit(t, bit) == [n |-> t.n - bit * Pow2(IF bit = 0 THEN 0 ELSE t.k), k |-> t.k]

\* ------------------------------------------------- struct.pack / unpack
\* m / 2^sh rounded to the nearest integer, ties to even (sh >= 1, m >= 0)
RoundShift(m, sh) ==
    LET fl == ShiftRight(m, sh)
        r == LowBits(m, sh)
        hb == ShiftRight(r, sh - 1)
        rest == LowBits(r, sh - 1)
    IN  IF hb = 1 /\ (rest > 0 \/ fl % 2 = 1) THEN fl + 1 ELSE fl

\* (float)x of C for a finite nonzero double x = m * 2^e: the fields of the
\* nearest single; over is TRUE when the rounded value is out of range
SingleOfFinite(x) ==
    LET E == x.e + BitLen(x.m) - 1
        q0 == Max(E - SingleFracBits, 0 - SingleMinUlp)
        sh == q0 - x.e
        M0 == IF sh <= 0 THEN x.m * Pow2(0 - sh) ELSE RoundShift(x.m, sh)
        carry == M0 = Pow2(SingleFracBits + 1)
        M == IF carry THEN Pow2(SingleFracBits) ELSE M0
        q == IF carry THEN q0 + 1 ELSE q0
        normal == M >= Pow2(SingleFracBits)
        be == IF normal THEN q + SingleFracBits + SingleBias ELSE 0
    IN  [s |-> x.sign,
         be |-> Min(be, SingleMaxBiased),
         mant |-> IF be >= SingleMaxBiased THEN 0
                  ELSE IF normal THEN M - Pow2(SingleFracBits) ELSE M,
         over |-> be >= SingleMaxBiased]

\* fields of the single that struct.pack('f', x) stores
SingleOf(x) ==
    CASE x.kind = "nan" ->
            [s |-> 0, be |-> SingleMaxBiased, mant |-> Pow2(SingleFracBits - 1), over |-> FALSE]
      [] x.kind = "inf" ->
            [s |-> x.sign, be |-> SingleMaxBiased, mant |-> 0, over |-> FALSE]
      [] x.kind = "fin" /\ x.m = 0 ->
            [s |-> x.sign, be |-> 0, mant |-> 0, over |-> FALSE]
      [] OTHER -> SingleOfFinite(x)

\* the 32 bits of a single, bit 31 first
WordBits(w) ==
    <<Str(w.s)>> \o FormatBin(w.be, SingleExpBits) \o FormatBin(w.mant, SingleFracBits)

Reverse(s) == [i \in 1..Len(s) |-> s[Len(s) + 1 - i]]

\* the four bytes of a single in memory, lowest address first
MemoryBytes(w, order) ==
    LET bits == WordBits(w)
        msb == [i \in 1..4 |-> BitsValue(SubSeq(bits, 8 * i - 7, 8 * i))]
    IN  IF order = "big" THEN msb ELSE Reverse(msb)

\* ''.join(f'{byte:08b}' for byte in packed)
RECURSIVE JoinBytes(_)
JoinBytes(bs) ==
    IF Len(bs) = 0 THEN <<>>
    ELSE FormatBin(Head(bs), ByteWidth) \o JoinBytes(Tail(bs))

\* m * 2^e with the trailing zero bits of m moved into e
RECURSIVE Canon(_, _, _)
Canon(s, m, e) ==
    IF m = 0 THEN Zero(s)
    ELSE IF m % 2 = 0 THEN Canon(s, m \div 2, e + 1)
    ELSE Fin(s, m, e)

\* value of the single with the given fields
SingleValue(s, be, mant) ==
    IF be = SingleMaxBiased THEN (IF mant = 0 THEN Inf(s) ELSE NaN)
    ELSE IF be = 0 THEN Canon(s, mant, 0 - SingleMinUlp)
    ELSE Canon(s, Pow2(SingleFracBits) + mant, be - SingleBias - SingleFracBits)

\* struct.unpack('f', bytes_array)[0] for four bytes in memory order
Unpack(bs, order) ==
    LET bits == JoinBytes(IF order = "big" THEN bs ELSE Reverse(bs))
    IN  SingleValue(BitsValue(SubSeq(bits, 1, 1)),
                    BitsValue(SubSeq(bits, 2, 1 + SingleExpBits)),
                    BitsValue(SubSeq(bits, 2 + SingleExpBits, 32)))

\* int(chunk, 2) for a chunk over the characters 0 1 + - x: an optional sign,
\* then at least one binary digit; ok is FALSE where int raises ValueError
ParseBase2(chunk) ==
    LET signed == Len(chunk) > 0 /\ chunk[1] \in {"+", "-"}
        digits == IF signed THEN Tail(chunk) ELSE chunk
        ok == Len(digits) > 0 /\ \A i \in 1..Len(digits) : digits[i] \in {"0", "1"}
    IN  [ok |-> ok,
         val |-> IF ~ok THEN 0
                 ELSE IF signed /\ chunk[1] = "-" THEN 0 - BitsValue(digits)
                 ELSE BitsValue(digits)]

ByteOrders == {"little", "big"}

\* arguments handed to ieee754_single_to_decimal: well-formed 32-bit strings,
\* cut short or extended, with at most one character replaced
DecodeBase ==
    {<<Str(s)>> \o FormatBin(be, SingleExpBits) \o FormatBin(mant, SingleFracBits) :
        s \in {0, 1}, be \in {0, 130, 255}, mant \in {0, 4587520}}

DecodeLengths == {0, 24, 25, 31} \cup (DecodeBits..(DecodeBits + MaxExtra))

Replaced(str, p, c) ==
    IF p >= 1 /\ p <= Len(str) THEN [str EXCEPT ![p] = c] ELSE str

DecodeInputs ==
    {Replaced(SubSeq(b \o Repeat("1", MaxExtra), 1, n), p, c) :
        b \in DecodeBase, n \in DecodeLengths,
        p \in {0, 1, 9, 25, 32, 33}, c \in {"x", "+", "-"}}

\* ------------------------------------------------------------------ state
VARIABLES
    fn,               \* the routine that was called, None before any call
    pc,               \* position of the running call; "idle" before any call
    exc,              \* exception that ended the call, or None
    decimal_num,      \* argument of manual_float_conversion / decimal_to_ieee754_single
    sign, abs_num, integer_part, fractional_part, int_binary,
    frac_binary, temp, iter,
    exponent, mantissa, biased_exponent, exponent_binary, mantissa_binary,
    final,            \* return value of manual_float_conversion
    byteorder,        \* native byte order of the host running struct
    result,           \* return value of decimal_to_ieee754_single / ieee754_single_to_decimal
    packed,           \* bytes returned by struct.pack
    ieee_bits,        \* bit string: local of the encoder, argument of the decoder
    bytes_array, dec_i

manualVars == <<sign, abs_num, integer_part, fractional_part, int_binary,
                frac_binary, temp, iter, exponent, mantissa, biased_exponent,
                exponent_binary, mantissa_binary, final>>
structVars == <<byteorder, result, packed, ieee_bits, bytes_array, dec_i>>
vars == <<fn, pc, exc, decimal_num, manualVars, structVars>>

Init ==
    /\ fn = None
    /\ pc = "idle"
    /\ exc = None
    /\ decimal_num = None
    /\ sign = None /\ abs_num = None /\ integer_part = None
    /\ fractional_part = None /\ int_binary = None
    /\ frac_binary = None /\ temp = None /\ iter = 0
    /\ exponent = None /\ mantissa = None /\ biased_exponent = None
    /\ exponent_binary = None /\ mantissa_binary = None /\ final = None
    /\ byteorder = None /\ result = None /\ ieee_bits = None
    /\ packed = None /\ bytes_array = <<>> /\ dec_i = 0

\* ------------------------------------------------ manual_float_conversion
ManualCall ==
    /\ pc = "idle"
    /\ fn' = "manual_float_conversion"
    /\ \E x \in Inputs : decimal_num' = x
    /\ pc' = "step1"
    /\ UNCHANGED <<exc, manualVars, structVars>>

\* Step 1: sign bit and magnitude
Step1Sign ==
    /\ pc = "step1"
    /\ sign' = IF GeZero(decimal_num) THEN 0 ELSE 1
    /\ abs_num' = Abs(decimal_num)
    /\ pc' = "step2"
    /\ UNCHANGED <<fn, exc, decimal_num, integer_part, fractional_part, int_binary,
                   frac_binary, temp, iter, exponent, mantissa, biased_exponent,
                   exponent_binary, mantissa_binary, final, structVars>>

\* Step 2: int(abs_num) raises on infinity and NaN
Step2Raise ==
    /\ pc = "step2"
    /\ abs_num.kind # "fin"
    /\ exc' = IF abs_num.kind = "inf" THEN "OverflowError" ELSE "ValueError"
    /\ pc' = "raised"
    /\ UNCHANGED <<fn, decimal_num, manualVars, structVars>>

\* Step 2: split into integer and fractional part, integer part to binary
Step2Split ==
    /\ pc = "step2"
    /\ abs_num.kind = "fin"
    /\ integer_part' = IntOf(abs_num)
    /\ fractional_part' = FracOf(abs_num)
    /\ int_binary' = IntBinary(IntOf(abs_num))
    /\ frac_binary' = <<>>
    /\ temp' = FracOf(abs_num)
    /\ iter' = 0
    /\ pc' = "loop"
    /\ UNCHANGED <<fn, exc, decimal_num, sign, abs_num, exponent, mantissa,
                   biased_exponent, exponent_binary, mantissa_binary, final,
                   structVars>>

\* one iteration of "for _ in range(23)"
LoopIter ==
    /\ pc = "loop"
    /\ iter < LoopBits
    /\ LET t2 == Doubled(temp)
           bit == IntOfFrac(t2)
           t3 == MinusBit(t2, bit)
       IN  /\ frac_binary' = frac_binary \o <<Str(bit)>>
           /\ temp' = t3
           /\ iter' = iter + 1
           /\ pc' = IF t3.n = 0 \/ iter + 1 >= LoopBits THEN "step3" ELSE "loop"
    /\ UNCHANGED <<fn, exc, decimal_num, sign, abs_num, integer_part, fractional_part,
                   int_binary, exponent, mantissa, biased_exponent,
                   exponent_binary, mantissa_binary, final, structVars>>

\* Step 3, integer_part > 0
Step3Integer ==
    /\ pc = "step3"
    /\ integer_part.m > 0
    /\ exponent' = Len(int_binary) - 1
    /\ mantissa' = SliceFrom(int_binary, 1) \o frac_binary
    /\ pc' = "step4"
    /\ UNCHANGED <<fn, exc, decimal_num, sign, abs_num, integer_part, fractional_part,
                   int_binary, frac_binary, temp, iter, biased_exponent,
                   exponent_binary, mantissa_binary, final, structVars>>

\* Step 3, integer_part = 0 and a '1' among the fractional digits
Step3Fraction ==
    /\ pc = "step3"
    /\ integer_part.m = 0
    /\ IndexOfOne(frac_binary, 1) >= 0
    /\ LET first_one == IndexOfOne(frac_binary, 1)
       IN  /\ exponent' = 0 - (first_one + 1)
           /\ mantissa' = SliceFrom(frac_binary, first_one + 1)
    /\ pc' = "step4"
    /\ UNCHANGED <<fn, exc, decimal_num, sign, abs_num, integer_part, fractional_part,
                   int_binary, frac_binary, temp, iter, biased_exponent,
                   exponent_binary, mantissa_binary, final, structVars>>

\* Step 3, frac_binary.index('1') finds nothing
Step3Raise ==
    /\ pc = "step3"
    /\ integer_part.m = 0
    /\ IndexOfOne(frac_binary, 1) < 0
    /\ exc' = "ValueError"
    /\ pc' = "raised"
    /\ UNCHANGED <<fn, decimal_num, manualVars, structVars>>

\* Step 4: bias the exponent
Step4Bias ==
    /\ pc = "step4"
    /\ biased_exponent' = exponent + Bias
    /\ exponent_binary' = FormatBin(exponent + Bias, ExpFieldWidth)
    /\ pc' = "step5"
    /\ UNCHANGED <<fn, exc, decimal_num, sign, abs_num, integer_part, fractional_part,
                   int_binary, frac_binary, temp, iter, exponent, mantissa,
                   mantissa_binary, final, structVars>>

\* Step 5 and final format
Step5Final ==
    /\ pc = "step5"
    /\ LET mb == Ljust(Slice(mantissa, 0, MantissaWidth), MantissaWidth, "0")
       IN  /\ mantissa_binary' = mb
           /\ final' = <<Str(sign)>> \o exponent_binary \o mb
    /\ pc' = "done"
    /\ UNCHANGED <<fn, exc, decimal_num, sign, abs_num, integer_part, fractional_part,
                   int_binary, frac_binary, temp, iter, exponent, mantissa,
                   biased_exponent, exponent_binary, structVars>>

\* ---------------------------------------------- decimal_to_ieee754_single
EncodeCall ==
    /\ pc = "idle"
    /\ fn' = "decimal_to_ieee754_single"
    /\ \E x \in Inputs : decimal_num' = x
    /\ \E o \in ByteOrders : byteorder' = o
    /\ pc' = "enc_pack"
    /\ UNCHANGED <<exc, manualVars, result, packed, ieee_bits, bytes_array, dec_i>>

\* packed = struct.pack('f', decimal_num); a finite value beyond the single
\* range is stored as infinity here, or rejected in EncodePackRaise
EncodePack ==
    /\ pc = "enc_pack"
    /\ packed' = MemoryBytes(SingleOf(decimal_num), byteorder)
    /\ pc' = "enc_parse"
    /\ UNCHANGED <<fn, exc, decimal_num, manualVars, byteorder, result, ieee_bits,
                   bytes_array, dec_i>>

\* struct.pack raises OverflowError ("float too large to pack with f format")
EncodePackRaise ==
    /\ pc = "enc_pack"
    /\ SingleOf(decimal_num).over
    /\ exc' = "OverflowError"
    /\ pc' = "raised"
    /\ UNCHANGED <<fn, decimal_num, manualVars, structVars>>

\* join the bytes into a bit string and slice the fields out of it
EncodeParse ==
    /\ pc = "enc_parse"
    /\ LET bits == JoinBytes(packed)
           sign_bit == bits[1]
           exp == Slice(bits, 1, 9)
       IN  /\ ieee_bits' = bits
           /\ result' = [full |-> bits,
                         sign |-> sign_bit,
                         exponent |-> exp,
                         mantissa |-> Slice(bits, 9, DecodeBits),
                         sign_val |-> IF sign_bit = "1" THEN "-" ELSE "+",
                         exponent_val |-> BitsValue(exp) - Bias,
                         exponent_biased |-> BitsValue(exp)]
    /\ pc' = "enc_done"
    /\ UNCHANGED <<fn, exc, decimal_num, manualVars, byteorder, packed, bytes_array, dec_i>>

\* ---------------------------------------------- ieee754_single_to_decimal
DecodeCall ==
    /\ pc = "idle"
    /\ fn' = "ieee754_single_to_decimal"
    /\ \E b \in DecodeInputs : ieee_bits' = b
    /\ \E o \in ByteOrders : byteorder' = o
    /\ bytes_array' = <<>>
    /\ dec_i' = 0
    /\ pc' = "dec_loop"
    /\ UNCHANGED <<exc, decimal_num, manualVars, result, packed>>

\* one iteration of "for i in range(0, 32, 8)" that appends a byte
DecodeIter ==
    /\ pc = "dec_loop"
    /\ dec_i < DecodeBits
    /\ LET p == ParseBase2(Slice(ieee_bits, dec_i, dec_i + ByteWidth))
       IN  /\ p.ok
           /\ p.val \in 0..255
           /\ bytes_array' = Append(bytes_array, p.val)
    /\ dec_i' = dec_i + ByteWidth
    /\ pc' = IF dec_i + ByteWidth >= DecodeBits THEN "dec_unpack" ELSE "dec_loop"
    /\ UNCHANGED <<fn, exc, decimal_num, manualVars, byteorder, result, packed, ieee_bits>>

\* int(chunk, 2) or bytes_array.append(byte) raises ValueError
DecodeIterRaise ==
    /\ pc = "dec_loop"
    /\ dec_i < DecodeBits
    /\ LET p == ParseBase2(Slice(ieee_bits, dec_i, dec_i + ByteWidth))
       IN  ~p.ok \/ p.val \notin 0..255
    /\ exc' = "ValueError"
    /\ pc' = "raised"
    /\ UNCHANGED <<fn, decimal_num, manualVars, structVars>>

\* return struct.unpack('f', bytes_array)[0]
DecodeUnpack ==
    /\ pc = "dec_unpack"
    /\ result' = Unpack(bytes_array, byteorder)
    /\ pc' = "dec_done"
    /\ UNCHANGED <<fn, exc, decimal_num, manualVars, byteorder, packed, ieee_bits,
                   bytes_array, dec_i>>

Next ==
    \/ ManualCall
    \/ Step1Sign
    \/ Step2Raise
    \/ Step2Split
    \/ LoopIter
    \/ Step3Integer
    \/ Step3Fraction
    \/ Step3Raise
    \/ Step4Bias
    \/ Step5Final
    \/ EncodeCall
    \/ EncodePack
    \/ EncodePackRaise
    \/ EncodeParse
    \/ DecodeCall
    \/ DecodeIter
    \/ DecodeIterRaise
    \/ DecodeUnpack

Spec == Init /\ [][Next]_vars

\* ================================================================ claims
Manual == fn = "manual_float_conversion"
Encoder == fn = "decimal_to_ieee754_single"
Decoder == fn = "ieee754_single_to_decimal"

IsBitString(str) == \A i \in 1..Len(str) : str[i] \in {"0", "1"}

FiniteNonzero(x) == x.kind = "fin" /\ x.m > 0

\* floor(log2 |x|) of a finite nonzero x
TrueExponent(x) == x.e + BitLen(x.m) - 1

\* (-1)^sign * (1 + M/2^23) * 2^(E-127) for the fields read off a 32-character string
DecodeFields(str) ==
    Canon(BitsValue(SubSeq(str, 1, 1)),
          Pow2(23) + BitsValue(SubSeq(str, 10, 32)),
          BitsValue(SubSeq(str, 2, 9)) - 127 - 23)

\* 0.5, 1.0, 2.0, -1.0, 0.25, 6.5, 12.375
RoundTripInputs ==
    {Fin(0, 1, -1), Fin(0, 1, 0), Fin(0, 1, 1), Fin(1, 1, 0), Fin(0, 1, -2),
     Fin(0, 13, -1), Fin(0, 99, -3)}

Bits_6_5 ==
    <<"0">> \o <<"1", "0", "0", "0", "0", "0", "0", "1">>
            \o <<"1", "0", "1">> \o Repeat("0", 20)

Bits_12_375 ==
    <<"0">> \o <<"1", "0", "0", "0", "0", "0", "1", "0">>
            \o <<"1", "0", "0", "0", "1", "1">> \o Repeat("0", 17)

\* C1: for each x of {0.5, 1.0, 2.0, -1.0, 0.25, 6.5, 12.375} the string
\* returned by manual_float_conversion(x) has 32 characters and decodes, by
\* (-1)^sign * (1 + M/2^23) * 2^(E-127), to exactly x; 6.5 and 12.375 give
\* the two bit patterns of the scenarios.
C1_RoundTrip ==
    (Manual /\ decimal_num \in RoundTripInputs /\ pc \in {"done", "raised"}) =>
        /\ pc = "done"
        /\ Len(final) = 32
        /\ DecodeFields(final) = decimal_num
        /\ (decimal_num = Fin(0, 13, -1) => final = Bits_6_5)
        /\ (decimal_num = Fin(0, 99, -3) => final = Bits_12_375)

C1_Witness ==
    Manual /\ pc = "done" /\ decimal_num = Fin(0, 99, -3) /\ final = Bits_12_375

\* the first 23 bits after the leading 1 of the binary expansion of |x|
TrueMantissa(x) ==
    LET after == SubSeq(BinDigits(x.m), 2, BitLen(x.m))
    IN  SubSeq(after \o Repeat("0", 23), 1, 23)

\* C2: when the expansion of a finite nonzero x needs more than 23 bits after
\* its leading 1, the mantissa field of manual_float_conversion(x) is the
\* first 23 of those bits: truncated, not rounded, none replaced by padding.
C2_Truncation ==
    (Manual /\ pc = "done" /\ FiniteNonzero(decimal_num)
        /\ BitLen(decimal_num.m) - 1 > 23) =>
        mantissa_binary = TrueMantissa(decimal_num)

\* C3: on every finite nonzero input on which manual_float_conversion
\* returns, the result is 32 characters of 0/1: a sign, an 8-character
\* exponent field of a biased exponent in 0..255, a 23-character mantissa.
C3_Layout ==
    (Manual /\ pc = "done" /\ FiniteNonzero(decimal_num)) =>
        /\ Len(final) = 32
        /\ IsBitString(final)
        /\ Len(exponent_binary) = 8
        /\ biased_exponent \in 0..255
        /\ Len(mantissa_binary) = 23

\* C4: a finite input of magnitude at least 2^128 (biased exponent above 254)
\* is encoded by manual_float_conversion as infinity of the same sign:
\* exponent field 11111111 and mantissa field all zeros.
C4_SaturateToInfinity ==
    (Manual /\ pc \in {"done", "raised"} /\ FiniteNonzero(decimal_num)
        /\ TrueExponent(decimal_num) + 127 > 254) =>
        /\ pc = "done"
        /\ final = <<Str(decimal_num.sign)>> \o Repeat("1", 8) \o Repeat("0", 23)

\* C5: the sign step yields sign bit 1 exactly when the input is below zero
\* or is negative zero, and the magnitude |x|; so -0.0 has sign 1, 0.0 sign 0.
C5_SignStep ==
    (Manual /\ pc # "step1" /\ decimal_num.kind = "fin") =>
        /\ sign = decimal_num.sign
        /\ abs_num = Fin(0, decimal_num.m, decimal_num.e)

\* C6: manual_float_conversion is total: on every input (finite, either
\* zero, either infinity, NaN, magnitudes with no 1 among the generated
\* fractional digits) it returns a 32-bit string and never raises.
C6_Total ==
    Manual => /\ pc # "raised"
              /\ (pc = "done" => Len(final) = 32 /\ IsBitString(final))

\* no 1 bit appears in the integer part or among the generated digits
NoOneBit(x) == x.kind = "fin" /\ (x.m = 0 \/ TrueExponent(x) < 0 - 23)

\* C7: for a zero of either sign, and for an input with integer part 0 and no
\* 1 among the generated fractional digits, manual_float_conversion returns
\* signed zero: sign of x, exponent field 00000000, mantissa all zeros.
C7_SignedZero ==
    (Manual /\ pc \in {"done", "raised"} /\ NoOneBit(decimal_num)) =>
        /\ pc = "done"
        /\ final = <<Str(decimal_num.sign)>> \o Repeat("0", 8) \o Repeat("0", 23)

WellFormed(str) == Len(str) = 32 /\ IsBitString(str)

\* C8: ieee754_single_to_decimal signals an error on every argument that is
\* not exactly 32 characters of 0/1; it never returns a value for one.
C8_RejectsMalformed ==
    (Decoder /\ pc = "dec_done") => WellFormed(ieee_bits)

\* C9: on either byte order, decimal_to_ieee754_single(x) returns the single
\* precision pattern of x with bit 31 first: sign is bit 31, exponent bits
\* 30-23, mantissa bits 22-0, exponent_val = exponent_biased - 127; 12.375
\* gives 0 10000010 10001100000000000000000.
C9_MostSignificantFirst ==
    (Encoder /\ pc = "enc_done") =>
        LET w == SingleOf(decimal_num)
        IN  /\ result.sign = Str(w.s)
            /\ result.exponent = FormatBin(w.be, 8)
            /\ result.mantissa = FormatBin(w.mant, 23)
            /\ result.full = <<result.sign>> \o result.exponent \o result.mantissa
            /\ result.exponent_biased = w.be
            /\ result.exponent_val = w.be - 127
            /\ (decimal_num = Fin(0, 99, -3) => result.full = Bits_12_375)

\* n / 2^k in lowest terms
RECURSIVE Reduced(_, _)
Reduced(n, k) ==
    IF n = 0 THEN [n |-> 0, k |-> 0]
    ELSE IF k > 0 /\ n % 2 = 0 THEN Reduced(n \div 2, k - 1)
    ELSE [n |-> n, k |-> k]

\* integer part and fractional part of F * 2^n, for F = f.n / 2^(f.k)
ScaledFloor(f, n) ==
    IF n <= f.k THEN ShiftRight(f.n, f.k - n) ELSE f.n * Pow2(n - f.k)
ScaledFrac(f, n) ==
    IF n <= f.k THEN Reduced(LowBits(f.n, f.k - n), f.k - n) ELSE Reduced(0, 0)

\* the call has reached the fractional loop
LoopEntered ==
    /\ Manual
    /\ pc \notin {"step1", "step2"}
    /\ abs_num.kind = "fin"

\* C10: the fractional loop runs at most 23 times; after n iterations it has
\* emitted n bits b1..bn with F * 2^n = value(b1..bn) + temp and
\* 0 <= temp < 1; it has run at least once when it exits, and exits before
\* the 23rd iteration only with temp exactly 0.
C10_FractionLoop ==
    LoopEntered =>
        /\ iter <= 23
        /\ (pc = "loop" => iter < 23)
        /\ Len(frac_binary) = iter
        /\ IsBitString(frac_binary)
        /\ BitsValue(frac_binary) = ScaledFloor(fractional_part, iter)
        /\ Reduced(temp.n, temp.k) = ScaledFrac(fractional_part, iter)
        /\ temp.n >= 0 /\ ShiftRight(temp.n, temp.k) = 0
        /\ (pc # "loop" => iter >= 1 /\ (iter < 23 => temp.n = 0))

C10_Witness ==
    Manual /\ pc = "step3" /\ iter = 23 /\ temp.n > 0 /\ fractional_part.n > 0

====
